---- MODULE Spec2Model ----
(***************************************************************************)
(* A model of radius-sdk-rs, one part after the other, each with its own   *)
(* variables and its own specification (the others are held idle):         *)
(*   - the positional vector commitment of block-commitment/src/vc.rs      *)
(*     (Spec, SpecParams, SpecMismatch);                                   *)
(*   - SharedContext of context/src/ebr.rs (SpecEbr);                      *)
(*   - KvStore of kvstore/src/database.rs (SpecKv);                        *)
(*   - CachedKvStore of kvstore/src/in_memory.rs (SpecCached);             *)
(*   - fetch and multicast of the JSON-RPC client (SpecRpc, SpecRpcFair);  *)
(*   - the JSON round trip of the JSON-RPC Id (SpecId).                    *)
(*                                                                         *)
(* Group elements are written by their discrete logarithm: an element of   *)
(* G1, G2 or GT is the exponent (mod P) of the group's generator, the      *)
(* group law is addition mod P, scalar multiplication is multiplication    *)
(* mod P and the pairing e(a*G1, b*G2) = (a*b)*GT is multiplication mod P. *)
(* The scalar field Fr is Z_P.                                             *)
(***************************************************************************)
EXTENDS Integers, Sequences, FiniteSets, TLC

\* ------------------------------------------------------- sizes and inputs

\* Order of the scalar field E::Fr and of the groups G1, G2, GT (a prime).
P == 7

\* The const generic N of Commitment<E, N>: the capacity of the scheme.
N == 3

\* Message units of the vectors the prover commits to are drawn from 0..MaxMsg.
MaxMsg == 1

Fr == 0 .. (P - 1)

Min(a, b) == IF a <= b THEN a ELSE b

Msgs == 0 .. Min(MaxMsg, P - 1)

\* Input vectors: every vector of a length up to the capacity, and the
\* constant vectors one entry longer than the capacity.
Vectors ==
    UNION {[1 .. n -> Msgs] : n \in 0 .. N}
      \cup {[i \in 1 .. (N + 1) |-> m] : m \in Msgs}

\* Positions handed to open and verify: every position up to one past N.
Positions == 0 .. (N + 1)

\* ------------------------------------------------------- field and groups

RECURSIVE Pow(_, _)
Pow(a, k) == IF k = 0 THEN 1 ELSE (a * Pow(a, k - 1)) % P

\* Field::inverse: None for zero, Some(x^-1) otherwise.
inverse(x) ==
    IF x % P = 0
    THEN [some |-> FALSE, val |-> 0]
    ELSE [some |-> TRUE, val |-> CHOOSE y \in 1 .. (P - 1) : (x * y) % P = 1]

\* Neg::neg on a field element.
neg(x) == (P - (x % P)) % P

\* ProjectiveCurve::mul / AffineCurve::mul: scalar multiplication.
mul(point, scalar) == (point * scalar) % P

\* PairingEngine::pairing, in the exponent.
pairing(a, b) == (a * b) % P

RECURSIVE SumTo(_, _, _)
SumTo(bases, scalars, n) ==
    IF n = 0 THEN 0
    ELSE (SumTo(bases, scalars, n - 1) + mul(bases[n], scalars[n])) % P

\* VariableBaseMSM::multi_scalar_mul: sum of scalars[i] * bases[i] over the
\* common prefix of the two slices.
multi_scalar_mul(bases, scalars) ==
    SumTo(bases, scalars, Min(Len(bases), Len(scalars)))

\* E::product_of_pairings over a list of (G1, G2) pairs.
RECURSIVE product_of_pairings(_)
product_of_pairings(pairs) ==
    IF pairs = <<>> THEN 0
    ELSE (pairing(Head(pairs)[1], Head(pairs)[2])
          + product_of_pairings(Tail(pairs))) % P

\* E::G2Affine::prime_subgroup_generator().
G2Generator == 1 % P

\* ------------------------------------------------------------- parameters

\* A setup that keeps g[n] = G1^(alpha^(n+1)) instead of leaving it out.
ProverParamGen_keeps_gN(n, alpha, glen) ==
    [capacity |-> n,
     g |-> [i \in 1 .. glen |-> Pow(alpha, i)]]

\* The trusted setup (crate::param), as the specification describes it: for a
\* trapdoor alpha, g[i] = G1^(alpha^(i+1)) for i < glen with the entry at
\* index n left out (the identity), h[i] = G2^(alpha^(i+1)) for i < hlen and
\* t = e(g[0], h[n-1]) = GT^(alpha^(n+1)).  Sequences are 1-based: the
\* source's g[i] is g[i + 1] here.
ProverParamGen(n, alpha, glen) ==
    [capacity |-> n,
     g |-> [i \in 1 .. glen |-> IF i - 1 = n THEN 0 ELSE Pow(alpha, i)]]

VerifierParamGen(n, alpha, hlen) ==
    [capacity |-> n,
     h |-> [i \in 1 .. hlen |-> Pow(alpha, i)],
     t |-> Pow(alpha, n + 1)]

\* The trapdoors a setup may draw: the nonzero scalars.
Trapdoors == 1 .. (P - 1)

\* ---------------------------------------------------------------- results

\* A call either returns a value or panics (assert!, unwrap on None, slice or
\* index out of bounds, usize underflow).  The source has no error type: the
\* signatures return Self, Witness and bool.
Ok(v) == [kind |-> "ok", val |-> v, why |-> "-"]

Panic(why) == [kind |-> "panic", val |-> 0, why |-> why]

NoCall == [kind |-> "none", val |-> 0, why |-> "-"]

\* bases[from .. to) of a 0-based slice: the source's g[from..to].
Slice(s, from, to) == [i \in 1 .. (to - from) |-> s[from + i]]

\* PrimeField::into_repr: the canonical integer of a field element.
into_repr(x) == x % P

\* inputs.iter().map(|x| x.into_repr()).collect()
Scalars(inputs) == [i \in 1 .. Len(inputs) |-> into_repr(inputs[i])]

\* ------------------------------------------------------------- operations

\* commit with the vector aligned to the end of g[0..N]: the MSM against
\* g[N - len..N].
commit_right_aligned(pp_, inputs) ==
    IF ~(Len(inputs) <= pp_.capacity) THEN Panic("assert")
    ELSE IF pp_.capacity > Len(pp_.g) THEN Panic("index")
    ELSE Ok(multi_scalar_mul(
                Slice(pp_.g, pp_.capacity - Len(inputs), pp_.capacity),
                Scalars(inputs)))

\* commit: assert!(inputs.len() <= N), then the MSM of the inputs against
\* pp.g[0..inputs.len()].
commit(pp_, inputs) ==
    IF ~(Len(inputs) <= pp_.capacity) THEN Panic("assert")
    ELSE IF Len(inputs) > Len(pp_.g) THEN Panic("index")
    ELSE Ok(multi_scalar_mul(Slice(pp_.g, 0, Len(inputs)), Scalars(inputs)))

\* open with the shift of the window forgotten: the MSM against g[0..len].
open_unshifted(pp_, inputs, pos) ==
    IF ~(Len(inputs) <= pp_.capacity) THEN Panic("assert")
    ELSE IF pos > pp_.capacity THEN Panic("overflow")
    ELSE IF Len(inputs) > Len(pp_.g) THEN Panic("index")
    ELSE Ok(multi_scalar_mul(Slice(pp_.g, 0, Len(inputs)), Scalars(inputs)))

\* open with the window one entry late: g[N - pos + 1..N - pos + 1 + len].
open_window_late(pp_, inputs, pos) ==
    IF ~(Len(inputs) <= pp_.capacity) THEN Panic("assert")
    ELSE IF pos > pp_.capacity THEN Panic("overflow")
    ELSE IF pp_.capacity - pos + 1 + Len(inputs) > Len(pp_.g)
    THEN Panic("index")
    ELSE Ok(multi_scalar_mul(
                Slice(pp_.g, pp_.capacity - pos + 1,
                      pp_.capacity - pos + 1 + Len(inputs)),
                Scalars(inputs)))

\* open with the window one entry short: the MSM pairs inputs and bases up to
\* the shorter of the two, so the last input is left out.
open_window_short(pp_, inputs, pos) ==
    IF ~(Len(inputs) <= pp_.capacity) THEN Panic("assert")
    ELSE IF pos > pp_.capacity THEN Panic("overflow")
    ELSE IF pp_.capacity - pos + Len(inputs) > Len(pp_.g) THEN Panic("index")
    ELSE Ok(multi_scalar_mul(
                Slice(pp_.g, pp_.capacity - pos,
                      pp_.capacity - pos + Len(inputs) - 1),
                Scalars(inputs)))

\* open rejecting a position at or past the end of the vector.
open_inside_vector(pp_, inputs, pos) ==
    IF ~(Len(inputs) <= pp_.capacity) THEN Panic("assert")
    ELSE IF pos > pp_.capacity THEN Panic("overflow")
    ELSE IF pos >= Len(inputs) THEN Panic("position")
    ELSE IF pp_.capacity - pos + Len(inputs) > Len(pp_.g) THEN Panic("index")
    ELSE Ok(multi_scalar_mul(
                Slice(pp_.g, pp_.capacity - pos,
                      pp_.capacity - pos + Len(inputs)),
                Scalars(inputs)))

\* open: assert!(inputs.len() <= N), then the MSM of the inputs against the
\* window pp.g[N - pos..N - pos + inputs.len()].  N - pos is a usize
\* subtraction: for pos > N a build with overflow checks panics at the
\* subtraction, and a build without them wraps to an index far past the end
\* of g, which the slice's bound check turns into a panic.
open(pp_, inputs, pos) ==
    IF ~(Len(inputs) <= pp_.capacity) THEN Panic("assert")
    ELSE IF pos > pp_.capacity THEN Panic("overflow")
    ELSE IF pp_.capacity - pos + Len(inputs) > Len(pp_.g) THEN Panic("index")
    ELSE Ok(multi_scalar_mul(
                Slice(pp_.g, pp_.capacity - pos,
                      pp_.capacity - pos + Len(inputs)),
                Scalars(inputs)))

\* The shape shared by verify's variants: the index checks, then the pairing
\* product of (com_, h[hidx]) and (proof, G2) compared with t.
PairingCheck(vp_, input, pos, hidx, com_, proof) ==
    IF ~inverse(input).some THEN Panic("unwrap")
    ELSE IF pos + 1 > vp_.capacity THEN Panic("overflow")
    ELSE IF hidx >= Len(vp_.h) THEN Panic("index")
    ELSE Ok(product_of_pairings(<< <<com_, vp_.h[hidx + 1]>>,
                                   <<proof, G2Generator>> >>) = vp_.t)

\* verify with the scaling by 1/input forgotten.
verify_unscaled(self, vp_, input, pos, witness) ==
    PairingCheck(vp_, input, pos, vp_.capacity - pos - 1,
                 self, mul(witness, into_repr(neg(1))))

\* verify with h[N - 1] whatever the position.
verify_fixed_h(self, vp_, input, pos, witness) ==
    PairingCheck(vp_, input, pos, vp_.capacity - 1,
                 mul(self, into_repr(inverse(input).val)),
                 mul(witness, into_repr(neg(inverse(input).val))))

\* verify with the negation of the witness's scalar forgotten.
verify_not_negated(self, vp_, input, pos, witness) ==
    PairingCheck(vp_, input, pos, vp_.capacity - pos - 1,
                 mul(self, into_repr(inverse(input).val)),
                 mul(witness, into_repr(inverse(input).val)))

\* verify with the witness negated but not scaled by 1/input.
verify_proof_unscaled(self, vp_, input, pos, witness) ==
    LET input_inverse == inverse(input) IN
    IF ~input_inverse.some THEN Panic("unwrap")
    ELSE IF pos + 1 > vp_.capacity THEN Panic("overflow")
    ELSE IF vp_.capacity - pos - 1 >= Len(vp_.h) THEN Panic("index")
    ELSE LET com_ == mul(self, into_repr(input_inverse.val))
             proof == mul(witness, into_repr(neg(1)))
             pairing_prod_inputs ==
                 << <<com_, vp_.h[vp_.capacity - pos - 1 + 1]>>,
                    <<proof, G2Generator>> >>
         IN Ok(product_of_pairings(pairing_prod_inputs) = vp_.t)

\* verify: input.inverse().unwrap(), then the comparison of
\* e(self^(1/input), h[N - pos - 1]) * e(witness^(-1/input), G2) with vp.t.
\* N - pos - 1 underflows for pos >= N: a panic in either build, as in open.
verify(self, vp_, input, pos, witness) ==
    LET input_inverse == inverse(input) IN
    IF ~input_inverse.some THEN Panic("unwrap")
    ELSE IF pos + 1 > vp_.capacity THEN Panic("overflow")
    ELSE IF vp_.capacity - pos - 1 >= Len(vp_.h) THEN Panic("index")
    ELSE
      LET com_ == mul(self, into_repr(input_inverse.val))
          proof == mul(witness, into_repr(neg(input_inverse.val)))
          pairing_prod_inputs ==
              << <<com_, vp_.h[vp_.capacity - pos - 1 + 1]>>,
                 <<proof, G2Generator>> >>
      IN Ok(product_of_pairings(pairing_prod_inputs) = vp_.t)

\* ---------------------------------------------------------- serialization

\* A group element is written as Limbs digits of base LimbBase, least
\* significant first (ToBytes of the curve library writes every element with
\* the same number of limbs).
LimbBase == 4

Limbs == 2

RECURSIVE write(_, _)
write(x, n) == IF n = 0 THEN << >> ELSE <<x % LimbBase>> \o write(x \div LimbBase, n - 1)

\* The curve library's parse of what write produced.
RECURSIVE read(_)
read(buffer) ==
    IF buffer = << >> THEN 0 ELSE Head(buffer) + LimbBase * read(Tail(buffer))

\* A to_bytes that keeps only the first limb of the element.
to_bytes_first_limb(self) == Ok(write(self, 1))

\* to_bytes: the element written to a fresh buffer (a write to a Vec does not
\* fail, so the unwrap does not panic).
to_bytes(self) == Ok(write(self, Limbs))

\* ------------------------------------------------------------------ state

VARIABLES
    pp,     \* the ProverParam the prover holds
    vp,     \* the VerifierParam the verifier holds
    com,    \* the last commit call: its inputs and what it returned
    wit,    \* the last open call: its inputs, its position, what it returned
    ver,    \* the last verify call on (com, wit): claimed value, position, result
    bytes,  \* what to_bytes returned for the commitment
    \* SharedContext (ebr.rs)
    ptr,      \* the object the Atomic<T> points to
    heap,     \* the objects allocated so far: value, state, the pinned threads
              \* that may still hold a reference to a retired object
    thr,      \* each thread: its Context, its reference, its update call
    written,  \* the writes that took effect: how many, and the last value
    \* KvStore (database.rs, on_disk.rs)
    db,       \* the committed value under the key (None: no such key)
    klock,    \* the thread whose transaction holds the lock of the key
    kt,       \* each thread: where it is in its call, the Lock it holds
    applied,  \* the value the last put, delete or update stored under the
              \* key, and the apply calls that returned Ok since
    \* CachedKvStore (in_memory.rs)
    cmap,     \* the HashMap entry of the key: the Arc<Mutex<V>> it holds
    cells,    \* the Arc<Mutex<V>> allocated so far: value, holder of the mutex
    ct,       \* each thread: where it is in its call, the Arc it cloned
    \* RpcClient (json-rpc-client/src/lib.rs, json-rpc/src/client/mod.rs)
    eps,      \* the request future of each URL of the list: its state, its result
    rpc,      \* the fetch or multicast call: which, and what it returned
    \* Id (json-rpc/src/client/id.rs)
    id,       \* the Id handed to serde_json::to_string
    json,     \* the JSON text to_string returned
    back      \* the Id serde_json::from_str returned for the text

vcVars == <<pp, vp, com, wit, ver, bytes>>

ebrVars == <<ptr, heap, thr, written>>

kvVars == <<db, klock, kt, applied>>

cachedVars == <<cmap, cells, ct>>

rpcVars == <<eps, rpc>>

idVars == <<id, json, back>>

vars == <<vcVars, ebrVars, kvVars, cachedVars, rpcVars, idVars>>

\* What the actions of one part of the repository leave alone.
notVc == <<ebrVars, kvVars, cachedVars, rpcVars, idVars>>

notEbr == <<vcVars, kvVars, cachedVars, rpcVars, idVars>>

notKv == <<vcVars, ebrVars, cachedVars, rpcVars, idVars>>

notCached == <<vcVars, ebrVars, kvVars, rpcVars, idVars>>

notRpc == <<vcVars, ebrVars, kvVars, cachedVars, idVars>>

notId == <<vcVars, ebrVars, kvVars, cachedVars, rpcVars>>

\* The SharedContext before any thread touched it (the state the
\* specifications of the other parts hold it in).
EbrIdle ==
    /\ ptr = 0
    /\ heap = << >>
    /\ thr = << >>
    /\ written = [ver |-> 0, val |-> 0]

\* The KvStore before it is opened.
KvIdle ==
    /\ db = 0
    /\ klock = 0
    /\ kt = << >>
    /\ applied = 0

\* The CachedKvStore before it is created.
CachedIdle ==
    /\ cmap = 0
    /\ cells = << >>
    /\ ct = << >>

\* The RpcClient before any call.
RpcIdle ==
    /\ eps = << >>
    /\ rpc = [kind |-> "none", res |-> NoCall]

\* No Id serialized.
IdIdle ==
    /\ id = 0
    /\ json = NoCall
    /\ back = NoCall

\* The runs of the vector commitment leave the rest of the repository idle.
OnlyVc == EbrIdle /\ KvIdle /\ CachedIdle /\ RpcIdle /\ IdIdle

NoVerify == [input |-> 0, pos |-> 0, res |-> NoCall]

\* The vector commitment before any call (the state the specifications of
\* the other parts hold it in).
VcIdle ==
    /\ pp = ProverParamGen(N, 1, 2 * N)
    /\ vp = VerifierParamGen(N, 1, N)
    /\ com = [inputs |-> << >>, res |-> NoCall]
    /\ wit = [inputs |-> << >>, pos |-> 0, res |-> NoCall]
    /\ ver = NoVerify
    /\ bytes = NoCall

\* The runs of the SharedContext leave the rest of the repository idle.
OnlyEbr == VcIdle /\ KvIdle /\ CachedIdle /\ RpcIdle /\ IdIdle

\* The runs of the KvStore leave the rest of the repository idle.
OnlyKv == VcIdle /\ EbrIdle /\ CachedIdle /\ RpcIdle /\ IdIdle

\* The runs of the CachedKvStore leave the rest of the repository idle.
OnlyCached == VcIdle /\ EbrIdle /\ KvIdle /\ RpcIdle /\ IdIdle

\* The runs of the RpcClient leave the rest of the repository idle.
OnlyRpc == VcIdle /\ EbrIdle /\ KvIdle /\ CachedIdle /\ IdIdle

\* The runs of the Id round trip leave the rest of the repository idle.
OnlyId == VcIdle /\ EbrIdle /\ KvIdle /\ CachedIdle /\ RpcIdle

\* The calls a run makes: the vector handed to commit, and the vector and
\* position handed to open.  The vector opened is the vector committed to or
\* another vector of its length (the vector changed between the two calls).
Calls ==
    /\ \E v \in Vectors :
          /\ com = [inputs |-> v, res |-> NoCall]
          /\ \E w \in {x \in Vectors : Len(x) = Len(v)}, pos \in Positions :
                wit = [inputs |-> w, pos |-> pos, res |-> NoCall]
    /\ ver = NoVerify
    /\ bytes = NoCall

\* Prover and verifier parameters of one setup with capacity N: g holds 2N
\* entries (indices 0 .. 2N-1) and h holds N.
Init ==
    /\ \E alpha \in Trapdoors :
          /\ pp = ProverParamGen(N, alpha, 2 * N)
          /\ vp = VerifierParamGen(N, alpha, N)
    /\ Calls
    /\ OnlyVc

\* The prover commits to its vector.
Commit ==
    /\ com.res.kind = "none"
    /\ com' = [com EXCEPT !.res = commit(pp, com.inputs)]
    /\ UNCHANGED <<pp, vp, wit, ver, bytes>>
    /\ UNCHANGED notVc

\* An open that takes the parameters by value and hands them back with the
\* SRS rotated by one entry (what open would do if it wrote to pp).
Open_rotates_g ==
    /\ wit.res.kind = "none"
    /\ wit' = [wit EXCEPT !.res = open(pp, wit.inputs, wit.pos)]
    /\ pp' = [pp EXCEPT !.g = Tail(pp.g) \o <<Head(pp.g)>>]
    /\ UNCHANGED <<vp, com, ver, bytes>>
    /\ UNCHANGED notVc

\* The prover opens its vector at a position.
Open ==
    /\ wit.res.kind = "none"
    /\ wit' = [wit EXCEPT !.res = open(pp, wit.inputs, wit.pos)]
    /\ UNCHANGED <<pp, vp, com, ver, bytes>>
    /\ UNCHANGED notVc

\* The verifier checks a claimed (pos, value) against the commitment and the
\* witness it was handed (one verify call a run).
Verify(value, pos) ==
    /\ com.res.kind = "ok"
    /\ wit.res.kind = "ok"
    /\ ver.res.kind = "none"
    /\ ver' = [input |-> value, pos |-> pos,
               res |-> verify(com.res.val, vp, value, pos, wit.res.val)]
    /\ UNCHANGED <<pp, vp, com, wit, bytes>>
    /\ UNCHANGED notVc

\* The commitment is serialized (once a run).
ToBytes ==
    /\ com.res.kind = "ok"
    /\ bytes.kind = "none"
    /\ bytes' = to_bytes(com.res.val)
    /\ UNCHANGED <<pp, vp, com, wit, ver>>
    /\ UNCHANGED notVc

Next ==
    \/ Commit
    \/ Open
    \/ \E value \in Fr, pos \in Positions : Verify(value, pos)
    \/ ToBytes

Spec == Init /\ [][Next]_vars

\* Parameters whose sequences have other lengths than the setup's: g with
\* 2N-1, 2N or 2N+1 entries and h with N or N+1 entries.
InitParams ==
    /\ \E alpha \in Trapdoors, glen \in (2 * N - 1) .. (2 * N + 1),
          hlen \in N .. (N + 1) :
          /\ pp = ProverParamGen(N, alpha, glen)
          /\ vp = VerifierParamGen(N, alpha, hlen)
    /\ Calls
    /\ OnlyVc

SpecParams == InitParams /\ [][Next]_vars

\* A verifier whose parameters come from a setup of another capacity than the
\* prover's (the Commitment<E, N2> of another build, fed the bytes of a
\* commitment and a witness made under capacity N).
InitMismatch ==
    /\ \E alpha \in Trapdoors, n2 \in {N - 1, N + 1} :
          /\ pp = ProverParamGen(N, alpha, 2 * N)
          /\ vp = VerifierParamGen(n2, alpha, n2)
    /\ Calls
    /\ OnlyVc

SpecMismatch == InitMismatch /\ [][Next]_vars

\* ----------------------------------------------------------- vocabulary

\* The call returned the value v.
Returns(r, v) == r.kind = "ok" /\ r.val = v

\* The call reported the typed error e to its caller.  No operation of the
\* source produces one: a call returns or panics.
Reports(r, e) == r.kind = "err" /\ r.why = e

Committed == com.res.kind # "none"
Opened == wit.res.kind # "none"
Verified == ver.res.kind # "none"

\* inputs[pos] of a 0-based position.
At(inputs, pos) == inputs[pos + 1]

\* The commitment and the witness come from the same vector, and verify was
\* called at the position the witness was opened at, inside the vector.
HonestAtPos ==
    /\ Verified
    /\ com.inputs = wit.inputs
    /\ ver.pos = wit.pos
    /\ ver.pos < Len(com.inputs)

\* ------------------------------------------------------------------ C1

\* C1: completeness.  With parameters of one setup, a commitment and a witness
\* made from the same vector, and verify called at the opened position pos <
\* len(inputs) with the value inputs[pos] # 0, verify returns true.
C1_Completeness ==
    (/\ HonestAtPos
     /\ At(com.inputs, ver.pos) # 0
     /\ ver.input = At(com.inputs, ver.pos))
    => Returns(ver.res, TRUE)

\* A full vector opened at its last position and verified with its value.
C1_Witness ==
    /\ HonestAtPos
    /\ Len(com.inputs) = N
    /\ ver.pos = N - 1
    /\ At(com.inputs, ver.pos) # 0
    /\ ver.input = At(com.inputs, ver.pos)
    /\ \E i \in 1 .. (N - 1) : com.inputs[i] # 0
    /\ Returns(ver.res, TRUE)

\* ------------------------------------------------------------------ C2

Generic == open(pp, com.inputs, ver.pos).val # wit.res.val

\* C3: position sensitivity.  A witness opened at pos1, checked against the
\* commitment of the same vector at another position pos2 < len(inputs) with
\* the correct value inputs[pos2] # 0, makes verify return false when the
\* vector is generic.
C3_PositionSensitivity ==
    (/\ Verified
     /\ com.inputs = wit.inputs
     /\ ver.pos # wit.pos
     /\ ver.pos < Len(com.inputs)
     /\ At(com.inputs, ver.pos) # 0
     /\ ver.input = At(com.inputs, ver.pos)
     /\ Generic)
    => Returns(ver.res, FALSE)

\* The spec's scenario: a vector of nonzero entries opened at 1, checked at 0.
C3_Witness ==
    /\ Verified
    /\ com.inputs = wit.inputs
    /\ Len(com.inputs) = N
    /\ \A i \in 1 .. N : com.inputs[i] # 0
    /\ wit.pos = 1
    /\ ver.pos = 0
    /\ ver.input = At(com.inputs, 0)
    /\ Generic
    /\ Returns(ver.res, FALSE)

\* ------------------------------------------------------------------ C4

\* C4: capacity boundary.  commit and open (at every pos < N) succeed on a
\* vector of N entries, and both report CapacityExceeded on a longer one.
C4_CapacityBoundary ==
    /\ (Committed /\ Len(com.inputs) = N) => com.res.kind = "ok"
    /\ (Opened /\ Len(wit.inputs) = N /\ wit.pos < N) => wit.res.kind = "ok"
    /\ (Committed /\ Len(com.inputs) > N)
          => Reports(com.res, "CapacityExceeded")
    /\ (Opened /\ Len(wit.inputs) > N /\ wit.pos < N)
          => Reports(wit.res, "CapacityExceeded")

\* ------------------------------------------------------------------ C5

\* C5: verify with the claimed value 0 reports InvalidInput; the failed
\* inversion does not panic.
C5_ZeroValueIsTypedError ==
    (Verified /\ ver.input = 0) => Reports(ver.res, "InvalidInput")

\* ------------------------------------------------------------------ C6

\* C6: open and verify report CapacityExceeded for every pos >= N (on a
\* vector within capacity and a nonzero claimed value); no witness and no
\* boolean is returned, and the call does not panic.
C6_PositionOutOfRangeIsTypedError ==
    /\ (Opened /\ Len(wit.inputs) <= N /\ wit.pos >= N)
          => Reports(wit.res, "CapacityExceeded")
    /\ (Verified /\ ver.input # 0 /\ ver.pos >= N)
          => Reports(ver.res, "CapacityExceeded")

\* ------------------------------------------------------------------ C7

\* A panic of the index arithmetic: a usize underflow or a slice or index out
\* of bounds.
IndexPanic(r) == r.kind = "panic" /\ r.why \in {"overflow", "index"}

\* No index computation of the calls made left its bounds, for vectors within
\* capacity and positions below N.
IndicesInBounds ==
    /\ (Committed /\ Len(com.inputs) <= N) => ~IndexPanic(com.res)
    /\ (Opened /\ Len(wit.inputs) <= N /\ wit.pos < N) => ~IndexPanic(wit.res)
    /\ (Verified /\ ver.pos < N) => ~IndexPanic(ver.res)

\* C7 as stated: with at least 2N-1 entries in g and N in h, the index
\* computations of commit, open and verify stay in bounds for every
\* len(inputs) <= N and pos < N.
C7_IndexBound2NMinus1 ==
    (Len(pp.g) >= 2 * N - 1 /\ Len(vp.h) >= N) => IndicesInBounds

\* C7 as amended: with at least 2N entries in g and N in h, the index
\* computations of commit, open and verify stay in bounds for every
\* len(inputs) <= N and pos < N.
C7_IndexBound2N ==
    (Len(pp.g) >= 2 * N /\ Len(vp.h) >= N) => IndicesInBounds

\* The widest window: a full vector opened at position 0 reads g[N..2N], and
\* verify at N-1 and at 0 reads h[0] and h[N-1].
C7_Witness ==
    /\ Len(pp.g) = 2 * N
    /\ Len(vp.h) = N
    /\ Len(wit.inputs) = N
    /\ wit.pos = 0
    /\ wit.res.kind = "ok"
    /\ ver.pos = 0
    /\ ver.res.kind = "ok"

\* ------------------------------------------------------------------ C9

\* The commitment is of a vector that differs from the vector the witness was
\* opened on (same length), and verify is called at the witness's position.
ChangedAtPos ==
    /\ Verified
    /\ com.inputs # wit.inputs
    /\ Len(com.inputs) = Len(wit.inputs)
    /\ ver.pos = wit.pos

\* The two vectors differ at the opened position and nowhere else.
DifferOnlyAtPos ==
    /\ ver.pos < Len(com.inputs)
    /\ \A i \in 1 .. Len(com.inputs) :
          (com.inputs[i] # wit.inputs[i]) <=> (i = ver.pos + 1)

\* C9 as stated, for a vector changed at the opened position: the witness of
\* the old vector makes verify return false against the new commitment for
\* every nonzero claimed value.
C9_OldWitnessAlwaysRejected ==
    (ChangedAtPos /\ DifferOnlyAtPos /\ ver.input # 0)
    => Returns(ver.res, FALSE)

\* C9 as amended: a witness opened at pos on the old vector, checked against
\* the commitment of the changed vector with its value inputs'[pos] # 0, makes
\* verify return true exactly when the old witness equals the changed
\* vector's witness at pos (as it does when the vectors differ only at pos),
\* and false otherwise.
C9_OldWitnessValidIffUnchanged ==
    (/\ ChangedAtPos
     /\ ver.pos < Len(com.inputs)
     /\ At(com.inputs, ver.pos) # 0
     /\ ver.input = At(com.inputs, ver.pos))
    => Returns(ver.res, wit.res.val = open(pp, com.inputs, ver.pos).val)

\* A vector changed at a position other than the one opened, so that the old
\* witness no longer verifies the new value.
C9_Witness ==
    /\ ChangedAtPos
    /\ ver.pos < Len(com.inputs)
    /\ At(com.inputs, ver.pos) # 0
    /\ ver.input = At(com.inputs, ver.pos)
    /\ At(com.inputs, ver.pos) = At(wit.inputs, ver.pos)
    /\ Returns(ver.res, FALSE)

\* ------------------------------------------------------------------ C10

\* C10: a verifier whose parameters have another capacity than the prover's
\* reports ParameterMismatch (for a nonzero claimed value at a position below
\* both capacities) instead of returning a boolean.
C10_MismatchIsTypedError ==
    (/\ Verified
     /\ pp.capacity # vp.capacity
     /\ ver.input # 0
     /\ ver.pos < Min(pp.capacity, vp.capacity))
    => Reports(ver.res, "ParameterMismatch")

\* ------------------------------------------------------------------ C11

\* Two results are the same outcome: the same kind and, for a returned value,
\* the same value.
SameResult(r, s) ==
    /\ r.kind = s.kind
    /\ r.why = s.why
    /\ (r.kind = "ok" => r.val = s.val)

Serialized == bytes.kind = "ok"

RECURSIVE ShiftedSum(_, _, _, _)
ShiftedSum(g, inputs, pos, n) ==
    IF n = 0 THEN 0
    ELSE (ShiftedSum(g, inputs, pos, n - 1)
          + inputs[n] * g[(N - pos + (n - 1)) + 1]) % P

\* C20: for every vector of at most N entries and every pos in [0, N), open
\* returns the sum over i < len of inputs[i] * g[N - pos + i].
C20_OpenIsShiftedMsm ==
    (/\ Opened
     /\ Len(wit.inputs) <= N
     /\ wit.pos < N)
    => Returns(wit.res, ShiftedSum(pp.g, wit.inputs, wit.pos, Len(wit.inputs)))

\* A vector of N entries with a nonzero last entry was opened at a position
\* in range, and the witness is not the identity.
C20_Witness ==
    /\ Opened
    /\ Len(wit.inputs) = N
    /\ wit.inputs[N] # 0
    /\ wit.pos \in 1 .. (N - 1)
    /\ Returns(wit.res, ShiftedSum(pp.g, wit.inputs, wit.pos, N))
    /\ wit.res.val # 0

\* ======================================================= SharedContext
\* crates/context/src/ebr.rs: a pointer swapped atomically, with epoch-based
\* reclamation of the objects it pointed to.

EbrThreads == {"t1", "t2"}

ContextValues == {0, 1}

\* The writes (store, successful update) a run makes at most.
MaxWrites == 2

\* A thread that holds no Context and has called nothing.  ctx is the number
\* of writes made when the thread's Context was created (-1: no Context), ref
\* the object its reference from as_ref points to (0: none), seen the value
\* read through the reference and seenVer the number of writes made when the
\* reference was taken, stale whether another thread's write took effect
\* since; upd, cur and arg are its update call, missed whether its update
\* succeeded although stale; uaf whether it read a destroyed object.
IdleThread ==
    [ctx |-> -1, ref |-> 0, seen |-> -1, seenVer |-> -1, stale |-> FALSE,
     upd |-> "none", cur |-> 0, arg |-> 0, missed |-> FALSE, uaf |-> FALSE]

\* A thread is pinned while it holds a Context (Context.guard) or is inside
\* update (update's own guard).
Pinned(t) == thr[t].ctx # -1 \/ thr[t].upd = "loaded"

Owned(v) == [val |-> v, state |-> "live", blockers |-> {}]

\* The guards of thread t are gone: no retired object waits for t any more.
Unpin(h, t) ==
    [o \in DOMAIN h |-> [h[o] EXCEPT !.blockers = @ \ {t}]]

\* Retire object o: it is destroyed once every thread pinned now has unpinned
\* (guard.defer_destroy).
Retire(h, o, pinned) ==
    [h EXCEPT ![o] = [@ EXCEPT !.state = "retired", !.blockers = pinned]]

\* A write of thread t took effect: the value every other thread took a
\* reference to is no longer the context.
Overwritten(th, t) ==
    [u \in DOMAIN th |->
        IF u # t /\ th[u].seenVer # -1 THEN [th[u] EXCEPT !.stale = TRUE]
        ELSE th[u]]

\* SharedContext::from(value).
EbrInit ==
    /\ \E v \in ContextValues :
          /\ heap = <<Owned(v)>>
          /\ written = [ver |-> 0, val |-> v]
    /\ ptr = 1
    /\ thr = [t \in EbrThreads |-> IdleThread]
    /\ OnlyEbr

\* load: Context::new pins the thread.
load(t) ==
    /\ thr[t].ctx = -1
    /\ thr[t].upd # "loaded"
    /\ thr' = [thr EXCEPT ![t].ctx = written.ver]
    /\ UNCHANGED <<ptr, heap, written>>
    /\ UNCHANGED notEbr

\* Context::as_ref: the pointer is loaded again at every call, under the
\* Context's guard, and a reference to its object is returned.
as_ref(t) ==
    /\ thr[t].ctx # -1
    /\ thr[t].upd # "loaded"
    /\ thr' = [thr EXCEPT ![t].ref = ptr, ![t].seenVer = written.ver,
                          ![t].seen = -1, ![t].stale = FALSE]
    /\ UNCHANGED <<ptr, heap, written>>
    /\ UNCHANGED notEbr

\* The thread reads through the reference as_ref returned (the borrow lasts
\* at most as long as the Context).  Reading a destroyed object is undefined
\* behaviour: the value read is any value.
Deref(t) ==
    /\ thr[t].ref # 0
    /\ thr[t].upd # "loaded"
    /\ IF heap[thr[t].ref].state = "destroyed"
       THEN \E v \in ContextValues :
               thr' = [thr EXCEPT ![t].seen = v, ![t].uaf = TRUE]
       ELSE thr' = [thr EXCEPT ![t].seen = heap[thr[t].ref].val]
    /\ UNCHANGED <<ptr, heap, written>>
    /\ UNCHANGED notEbr

\* The Context goes out of scope: its guard unpins the thread.
DropContext(t) ==
    /\ thr[t].ctx # -1
    /\ thr[t].upd # "loaded"
    /\ thr' = [thr EXCEPT ![t].ctx = -1, ![t].ref = 0, ![t].seen = -1,
                          ![t].seenVer = -1, ![t].stale = FALSE]
    /\ heap' = Unpin(heap, t)
    /\ UNCHANGED <<ptr, written>>
    /\ UNCHANGED notEbr

\* A store that drops the previous object at once instead of deferring it.
store_drop_now(t, v) ==
    /\ thr[t].upd # "loaded"
    /\ written.ver < MaxWrites
    /\ heap' = Append([heap EXCEPT ![ptr].state = "destroyed"], Owned(v))
    /\ ptr' = Len(heap) + 1
    /\ written' = [ver |-> written.ver + 1, val |-> v]
    /\ thr' = Overwritten(thr, t)
    /\ UNCHANGED notEbr

\* store: pin, swap the pointer, defer the destruction of the previous
\* object, flush; the guard of store is dropped at the return, so the storing
\* thread stays pinned only if it holds a Context.
store(t, v) ==
    /\ thr[t].upd # "loaded"
    /\ written.ver < MaxWrites
    /\ heap' = Append(Retire(heap, ptr, {u \in EbrThreads : Pinned(u)}),
                      Owned(v))
    /\ ptr' = Len(heap) + 1
    /\ written' = [ver |-> written.ver + 1, val |-> v]
    /\ thr' = Overwritten(thr, t)
    /\ UNCHANGED notEbr

\* The collector (run from any pin or flush) destroys a retired object that
\* no thread pinned at its retirement can still reach.
Collect(o) ==
    /\ heap[o].state = "retired"
    /\ heap[o].blockers = {}
    /\ heap' = [heap EXCEPT ![o].state = "destroyed"]
    /\ UNCHANGED <<ptr, thr, written>>
    /\ UNCHANGED notEbr

\* update, first half: pin and load the current pointer.
update_load(t, v) ==
    /\ thr[t].upd # "loaded"
    /\ written.ver < MaxWrites
    /\ thr' = [thr EXCEPT ![t].upd = "loaded", ![t].cur = ptr, ![t].arg = v,
                          ![t].missed = FALSE]
    /\ UNCHANGED <<ptr, heap, written>>
    /\ UNCHANGED notEbr

\* update, second half: compare_exchange(current_context, Owned::new(context)).
\* On success the pointer is replaced (the previous object is not retired);
\* on failure the result is ContextError::Update.  missed records that
\* another thread's write took effect after the thread took the reference its
\* new state comes from.  The guard of update is dropped at the return.
update_compare_exchange(t) ==
    /\ thr[t].upd = "loaded"
    /\ IF ptr = thr[t].cur
       THEN /\ ptr' = Len(heap) + 1
            /\ written' = [ver |-> written.ver + 1, val |-> thr[t].arg]
            /\ thr' = Overwritten(
                          [thr EXCEPT ![t].upd = "ok", ![t].cur = 0,
                                      ![t].arg = 0, ![t].missed = thr[t].stale],
                          t)
            /\ heap' = IF thr[t].ctx = -1
                       THEN Unpin(Append(heap, Owned(thr[t].arg)), t)
                       ELSE Append(heap, Owned(thr[t].arg))
       ELSE /\ thr' = [thr EXCEPT ![t].upd = "err", ![t].cur = 0,
                                      ![t].arg = 0]
            /\ heap' = IF thr[t].ctx = -1 THEN Unpin(heap, t) ELSE heap
            /\ UNCHANGED <<ptr, written>>
    /\ UNCHANGED notEbr

EbrNext ==
    \/ \E t \in EbrThreads : load(t)
    \/ \E t \in EbrThreads : as_ref(t)
    \/ \E t \in EbrThreads : Deref(t)
    \/ \E t \in EbrThreads : DropContext(t)
    \/ \E t \in EbrThreads, v \in ContextValues : store(t, v)
    \/ \E o \in DOMAIN heap : Collect(o)
    \/ \E t \in EbrThreads, v \in ContextValues : update_load(t, v)
    \/ \E t \in EbrThreads : update_compare_exchange(t)

SpecEbr == EbrInit /\ [][EbrNext]_vars

\* ------------------------------------------------------------------ C13

\* C13: an update that succeeded did not replace a write another thread made
\* after the calling thread took the value its new state comes from (such an update
\* returns ContextError::Update and leaves the context as it is).
C13_UpdateSeesEveryChange ==
    \A t \in EbrThreads : thr[t].upd = "ok" => ~thr[t].missed

\* ------------------------------------------------------------------ C14

\* C14: a value read through as_ref after the last write took effect is the
\* value of that write, whenever the Context was created; and no thread reads
\* an object that was destroyed.
C14_StoreReplacesContext ==
    \A t \in EbrThreads :
        /\ (thr[t].seen # -1 /\ thr[t].seenVer = written.ver)
              => thr[t].seen = written.val
        /\ ~thr[t].uaf

\* A Context created before a store read the stored value after it, while
\* the other thread still reads, through an older reference, the retired
\* object the store replaced.
C14_Witness ==
    \E t, u \in EbrThreads :
        /\ thr[t].ctx # -1
        /\ thr[t].ctx < written.ver
        /\ thr[t].seenVer = written.ver
        /\ thr[t].seen = written.val
        /\ thr[u].ref # 0
        /\ heap[thr[u].ref].state = "retired"
        /\ thr[u].seen = heap[thr[u].ref].val
        /\ thr[u].seen # written.val

\* ============================================================= KvStore
\* sdk/kvstore/src/database.rs (crates/kvstore/src/on_disk.rs is the same
\* code): one key of a RocksDB TransactionDB.  A transaction that reads with
\* get_for_update or writes the key holds the key's lock until it commits
\* or is dropped; a transaction that needs the lock waits for it.

KvThreads == {"a", "b"}

KvValues == {0, 1}

\* The largest counter value an apply stores.
MaxCounter == 3

\* No value under the key (Option::None).
None == -1

\* V::default().
Default == 0

Free == "free"

\* A thread outside any call.  value is the value of the Lock it holds, got
\* the value the Lock held when get_mut_or_default returned it, at the value
\* stored under the key when the locking transaction read it; res is what
\* its last get or get_mut returned.
IdleKv ==
    [pc |-> "idle", value |-> None, got |-> None, at |-> None, res |-> NoCall]

\* A typed error of the store.
Err(e) == [kind |-> "err", val |-> 0, why |-> e]

\* The record of a write that was not an apply: the value it stored under
\* the key (None for a delete), with no apply since.
Stored(v) == [base |-> v, ok |-> 0]

\* KvStore::open: the key is missing or holds a value.
KvInit ==
    /\ db \in {None} \cup KvValues
    /\ klock = Free
    /\ kt = [t \in KvThreads |-> IdleKv]
    /\ applied = Stored(db)
    /\ OnlyKv

\* put: a transaction puts the value and commits.
put(t, v) ==
    /\ kt[t].pc = "idle"
    /\ klock = Free
    /\ db' = v
    /\ applied' = Stored(v)
    /\ UNCHANGED <<klock, kt>>
    /\ UNCHANGED notKv

\* delete: a transaction deletes the key and commits.
delete(t) ==
    /\ kt[t].pc = "idle"
    /\ klock = Free
    /\ db' = None
    /\ applied' = Stored(None)
    /\ UNCHANGED <<klock, kt>>
    /\ UNCHANGED notKv

\* get: get_pinned reads the committed value without a transaction; a missing
\* key is the error NoneType.
get(t) ==
    /\ kt[t].pc = "idle"
    /\ kt' = [kt EXCEPT ![t].res = IF db = None THEN Err("NoneType")
                                    ELSE Ok(db)]
    /\ UNCHANGED <<db, klock, applied>>
    /\ UNCHANGED notKv

\* get_mut: get_for_update in a transaction; a missing key is the error
\* NoneType (the transaction is dropped), a value becomes a Lock holding the
\* transaction.
get_mut(t) ==
    /\ kt[t].pc = "idle"
    /\ klock = Free
    /\ IF db = None
       THEN /\ kt' = [kt EXCEPT ![t].res = Err("NoneType")]
            /\ UNCHANGED klock
       ELSE /\ klock' = t
            /\ kt' = [kt EXCEPT ![t] = [pc |-> "lock", value |-> db,
                                        got |-> db, at |-> db,
                                        res |-> Ok(db)]]
    /\ UNCHANGED <<db, applied>>
    /\ UNCHANGED notKv

\* get_mut_or_default, first transaction: get_for_update.  Some(value): the
\* Lock is returned with the value read and with this transaction.  None:
\* V::default() is put and the transaction commits, which releases the key.
get_mut_or_default_first(t) ==
    /\ kt[t].pc = "idle"
    /\ klock = Free
    /\ IF db # None
       THEN /\ klock' = t
            /\ kt' = [kt EXCEPT ![t] = [pc |-> "lock", value |-> db,
                                        got |-> db, at |-> db,
                                        res |-> kt[t].res]]
            /\ UNCHANGED <<db, applied>>
       ELSE /\ db' = Default
            /\ applied' = Stored(Default)
            /\ kt' = [kt EXCEPT ![t].pc = "default_put"]
            /\ UNCHANGED klock
    /\ UNCHANGED notKv

\* get_mut_or_default, second transaction: get_for_update locks the key and
\* reads it, the value read is dropped, and the Lock is returned with
\* V::default().
get_mut_or_default_second(t) ==
    /\ kt[t].pc = "default_put"
    /\ klock = Free
    /\ klock' = t
    /\ kt' = [kt EXCEPT ![t] = [pc |-> "lock", value |-> Default,
                                got |-> Default, at |-> db,
                                res |-> kt[t].res]]
    /\ UNCHANGED <<db, applied>>
    /\ UNCHANGED notKv

\* DerefMut of the Lock: the holder changes the value.
deref_mut(t, v) ==
    /\ kt[t].pc = "lock"
    /\ kt[t].value # v
    /\ kt' = [kt EXCEPT ![t].value = v]
    /\ UNCHANGED <<db, klock, applied>>
    /\ UNCHANGED notKv

\* Lock::update: the value of the Lock is put and the transaction commits.
update(t) ==
    /\ kt[t].pc = "lock"
    /\ klock = t
    /\ db' = kt[t].value
    /\ applied' = Stored(kt[t].value)
    /\ klock' = Free
    /\ kt' = [kt EXCEPT ![t] = [IdleKv EXCEPT !.res = kt[t].res]]
    /\ UNCHANGED notKv

\* The Lock is dropped without update: its transaction is rolled back.
DropLock(t) ==
    /\ kt[t].pc = "lock"
    /\ klock = t
    /\ klock' = Free
    /\ kt' = [kt EXCEPT ![t] = [IdleKv EXCEPT !.res = kt[t].res]]
    /\ UNCHANGED <<db, applied>>
    /\ UNCHANGED notKv

\* apply with the key read outside the lock: get instead of get_for_update.
apply_get(t) ==
    /\ kt[t].pc = "idle"
    /\ db < MaxCounter
    /\ IF db = None
       THEN kt' = [kt EXCEPT ![t].res = Err("NoneType")]
       ELSE kt' = [kt EXCEPT ![t] = [pc |-> "apply", value |-> db,
                                     got |-> db, at |-> db,
                                     res |-> kt[t].res]]
    /\ UNCHANGED <<db, klock, applied>>
    /\ UNCHANGED notKv

\* apply, up to Lock::new: get_for_update in a transaction locks the key and
\* reads it.  A missing key is the error NoneType: apply returns it, the
\* transaction is dropped and the closure is not called.  A value becomes the
\* Lock handed to the closure.
apply_get_for_update(t) ==
    /\ kt[t].pc = "idle"
    /\ klock = Free
    /\ db < MaxCounter
    /\ IF db = None
       THEN /\ kt' = [kt EXCEPT ![t].res = Err("NoneType")]
            /\ UNCHANGED klock
       ELSE /\ klock' = t
            /\ kt' = [kt EXCEPT ![t] = [pc |-> "apply", value |-> db,
                                        got |-> db, at |-> db,
                                        res |-> kt[t].res]]
    /\ UNCHANGED <<db, applied>>
    /\ UNCHANGED notKv

\* apply, from the closure on: the closure increments the counter in the
\* Lock, Lock::update puts the value and commits (which releases the key),
\* and apply returns Ok(()).
apply_operation(t) ==
    /\ kt[t].pc = "apply"
    /\ db' = kt[t].value + 1
    /\ klock' = Free
    /\ kt' = [kt EXCEPT ![t] = [IdleKv EXCEPT !.res = Ok(0)]]
    /\ applied' = [applied EXCEPT !.ok = @ + 1]
    /\ UNCHANGED notKv

KvNext ==
    \/ \E t \in KvThreads, v \in KvValues : put(t, v)
    \/ \E t \in KvThreads : delete(t)
    \/ \E t \in KvThreads : get(t)
    \/ \E t \in KvThreads : get_mut(t)
    \/ \E t \in KvThreads : get_mut_or_default_first(t)
    \/ \E t \in KvThreads : get_mut_or_default_second(t)
    \/ \E t \in KvThreads, v \in KvValues : deref_mut(t, v)
    \/ \E t \in KvThreads : update(t)
    \/ \E t \in KvThreads : DropLock(t)
    \/ \E t \in KvThreads : apply_get_for_update(t)
    \/ \E t \in KvThreads : apply_operation(t)

SpecKv == KvInit /\ [][KvNext]_vars

\* ------------------------------------------------------------------ C15

\* C15: the Lock get_mut_or_default returns holds the value that was stored
\* under the key when the transaction holding the lock read it.
C15_LockHoldsStoredValue ==
    \A t \in KvThreads : kt[t].pc = "lock" => kt[t].got = kt[t].at

\* ======================================================= CachedKvStore
\* sdk/kvstore/src/in_memory.rs: a HashMap behind a mutex whose entries are
\* Arc<Mutex<V>>.  The map's mutex is held from the lock to the end of
\* downcast (which takes the guard by value), or to the end of put / delete.

CachedThreads == {"a", "b"}

CachedValues == {0, 1}

\* The puts a run makes at most.
MaxPuts == 2

\* A thread outside any call.  cell is the Arc<Mutex<V>> it cloned from the
\* map, res what its last get returned, during whether its last get or
\* get_mut returned while another thread held a Value of the key.
IdleCached == [pc |-> "idle", cell |-> 0, res |-> NoCall, during |-> FALSE]

\* Another thread holds a Value of the key.
ValueAlive(t) == \E u \in CachedThreads : u # t /\ ct[u].pc = "value"

\* CachedKvStore::default().
CachedInit ==
    /\ cmap = 0
    /\ cells = << >>
    /\ ct = [t \in CachedThreads |-> IdleCached]
    /\ OnlyCached

\* put: a new Arc<Mutex<V>> is inserted under the key, in place of the one
\* the map held.
cached_put(t, v) ==
    /\ ct[t].pc = "idle"
    /\ Len(cells) < MaxPuts
    /\ cells' = Append(cells, [val |-> v, holder |-> Free])
    /\ cmap' = Len(cells) + 1
    /\ UNCHANGED ct
    /\ UNCHANGED notCached

\* delete: the entry is removed.
cached_delete(t) ==
    /\ ct[t].pc = "idle"
    /\ cmap # 0
    /\ cmap' = 0
    /\ UNCHANGED <<cells, ct>>
    /\ UNCHANGED notCached

\* get and get_mut, first half: the map is locked and downcast clones the
\* Arc of the entry (KeyError if there is none).
downcast(t, call) ==
    /\ ct[t].pc = "idle"
    /\ IF cmap = 0
       THEN ct' = [ct EXCEPT ![t].res = Err("KeyError"), ![t].during = FALSE]
       ELSE ct' = [ct EXCEPT ![t].pc = call, ![t].cell = cmap,
                             ![t].during = FALSE]
    /\ UNCHANGED <<cmap, cells>>
    /\ UNCHANGED notCached

\* get, second half: the mutex of the cloned Arc is locked, the value cloned
\* and the mutex released.
cached_get(t) ==
    /\ ct[t].pc = "get"
    /\ cells[ct[t].cell].holder = Free
    /\ ct' = [ct EXCEPT ![t] = [pc |-> "idle", cell |-> 0,
                                res |-> Ok(cells[ct[t].cell].val),
                                during |-> ValueAlive(t)]]
    /\ UNCHANGED <<cmap, cells>>
    /\ UNCHANGED notCached

\* get_mut, second half: Value::lock takes the mutex of the cloned Arc and
\* keeps it (OwnedMutexGuard).
cached_get_mut(t) ==
    /\ ct[t].pc = "get_mut"
    /\ cells[ct[t].cell].holder = Free
    /\ cells' = [cells EXCEPT ![ct[t].cell].holder = t]
    /\ ct' = [ct EXCEPT ![t].pc = "value", ![t].during = ValueAlive(t)]
    /\ UNCHANGED cmap
    /\ UNCHANGED notCached

\* DerefMut of the Value: the holder changes the value.
value_deref_mut(t, v) ==
    /\ ct[t].pc = "value"
    /\ cells[ct[t].cell].val # v
    /\ cells' = [cells EXCEPT ![ct[t].cell].val = v]
    /\ UNCHANGED <<cmap, ct>>
    /\ UNCHANGED notCached

\* The Value is dropped: the mutex is released.
DropValue(t) ==
    /\ ct[t].pc = "value"
    /\ cells' = [cells EXCEPT ![ct[t].cell].holder = Free]
    /\ ct' = [ct EXCEPT ![t].pc = "idle", ![t].cell = 0]
    /\ UNCHANGED cmap
    /\ UNCHANGED notCached

CachedNext ==
    \/ \E t \in CachedThreads, v \in CachedValues : cached_put(t, v)
    \/ \E t \in CachedThreads : cached_delete(t)
    \/ \E t \in CachedThreads, call \in {"get", "get_mut"} : downcast(t, call)
    \/ \E t \in CachedThreads : cached_get(t)
    \/ \E t \in CachedThreads : cached_get_mut(t)
    \/ \E t \in CachedThreads, v \in CachedValues : value_deref_mut(t, v)
    \/ \E t \in CachedThreads : DropValue(t)

SpecCached == CachedInit /\ [][CachedNext]_vars

\* ------------------------------------------------------------------ C16

\* C16: no get and no get_mut of the key returns to a thread while another
\* thread holds a Value of the key.
C16_ExclusiveWhileValueAlive ==
    \A t \in CachedThreads : ~ct[t].during

\* =========================================================== RpcClient
\* crates/json-rpc/json-rpc-client/src/lib.rs (crates/json-rpc/src/client/
\* mod.rs and client.rs hold the same fetch and multicast): one request
\* future per URL, driven by select_ok (fetch) or join_all (multicast).

\* The URLs a list holds at most.
MaxUrls == 3

\* The results an endpoint may answer with.
Responses == {0, 1}

\* The request future of one URL: created (not polled to the point of
\* sending), sent (the request is out, no response yet), ok (completed with
\* Ok(val)), err (completed with Err), gone (taken out of select_ok).
Created == [st |-> "created", val |-> 0]

Unfinished(e) == e.st \in {"created", "sent"}

\* RpcClient::new(): no call is in progress.
RpcInit ==
    /\ eps = << >>
    /\ rpc = [kind |-> "none", res |-> NoCall]
    /\ OnlyRpc

\* fetch on a list of n URLs: the futures are collected and handed to
\* select_ok, which asserts that its iterator is not empty.
fetch(n) ==
    /\ rpc.kind = "none"
    /\ eps' = [i \in 1 .. n |-> Created]
    /\ rpc' = [kind |-> "fetch",
               res |-> IF n = 0 THEN Panic("select_ok") ELSE NoCall]
    /\ UNCHANGED notRpc

\* multicast on a list of n URLs: one fire_and_forget future per URL, handed
\* to join_all.
multicast(n) ==
    /\ rpc.kind = "none"
    /\ eps' = [i \in 1 .. n |-> Created]
    /\ rpc' = [kind |-> "multicast", res |-> NoCall]
    /\ UNCHANGED notRpc

\* send(): the request to URL i is written out.
Send(i) ==
    /\ rpc.res.kind = "none"
    /\ eps[i].st = "created"
    /\ eps' = [eps EXCEPT ![i].st = "sent"]
    /\ UNCHANGED rpc
    /\ UNCHANGED notRpc

\* send() fails before the request is out (no connection).
SendFails(i) ==
    /\ rpc.res.kind = "none"
    /\ eps[i].st = "created"
    /\ eps' = [eps EXCEPT ![i].st = "err"]
    /\ UNCHANGED rpc
    /\ UNCHANGED notRpc

\* The endpoint answers: send().await completes with the response (which
\* fetch parses to the result r).
Respond(i, r) ==
    /\ rpc.res.kind = "none"
    /\ eps[i].st = "sent"
    /\ eps' = [eps EXCEPT ![i] = [st |-> "ok", val |-> r]]
    /\ UNCHANGED rpc
    /\ UNCHANGED notRpc

\* The connection breaks, or the answer is not a response fetch accepts.
RespondError(i) ==
    /\ rpc.res.kind = "none"
    /\ eps[i].st = "sent"
    /\ eps' = [eps EXCEPT ![i].st = "err"]
    /\ UNCHANGED rpc
    /\ UNCHANGED notRpc

\* select_ok polled after a future completed: the futures are polled in list
\* order and the first one found ready is taken out; an Ok ends the call
\* with its value, an Err ends it only if no future is left, otherwise the
\* scan starts again.
select_ok ==
    /\ rpc.kind = "fetch"
    /\ rpc.res.kind = "none"
    /\ \E i \in DOMAIN eps : eps[i].st \in {"ok", "err"}
    /\ LET oks == {i \in DOMAIN eps : eps[i].st = "ok"}
           first == CHOOSE i \in oks : \A j \in oks : i <= j
       IN IF oks # {}
          THEN /\ eps' = [i \in DOMAIN eps |->
                            IF i = first THEN [eps[i] EXCEPT !.st = "taken"]
                            ELSE IF eps[i].st = "err" /\ i < first
                            THEN [eps[i] EXCEPT !.st = "gone"]
                            ELSE eps[i]]
               /\ rpc' = [rpc EXCEPT !.res = Ok(eps[first].val)]
          ELSE /\ eps' = [i \in DOMAIN eps |->
                            IF eps[i].st = "err"
                            THEN [eps[i] EXCEPT !.st = "gone"]
                            ELSE eps[i]]
               /\ rpc' = [rpc EXCEPT !.res =
                            IF \E i \in DOMAIN eps : Unfinished(eps[i])
                            THEN NoCall ELSE Err("Fetch")]
    /\ UNCHANGED notRpc

\* join_all(tasks).await completes when every fire_and_forget future has
\* completed, each of them with the end of its send().await; the outcomes are
\* dropped and multicast returns Ok(()).
join_all ==
    /\ rpc.kind = "multicast"
    /\ rpc.res.kind = "none"
    /\ \A i \in DOMAIN eps : ~Unfinished(eps[i])
    /\ rpc' = [rpc EXCEPT !.res = Ok(0)]
    /\ UNCHANGED eps
    /\ UNCHANGED notRpc

\* What the client's task does by itself, once the runtime polls it.
ClientStep ==
    \/ \E i \in DOMAIN eps : Send(i)
    \/ select_ok
    \/ join_all

RpcNext ==
    \/ \E n \in 0 .. MaxUrls : fetch(n)
    \/ \E n \in 0 .. MaxUrls : multicast(n)
    \/ \E i \in DOMAIN eps : Send(i)
    \/ \E i \in DOMAIN eps : SendFails(i)
    \/ \E i \in DOMAIN eps, r \in Responses : Respond(i, r)
    \/ \E i \in DOMAIN eps : RespondError(i)
    \/ select_ok
    \/ join_all

SpecRpc == RpcInit /\ [][RpcNext]_vars

\* The runtime polls a task that can make progress and the client writes out
\* a request it created; no endpoint is obliged to answer.
SpecRpcFair == RpcInit /\ [][RpcNext]_vars /\ WF_vars(ClientStep)

\* ------------------------------------------------------------------ C17

\* C17: a fetch that ended returned Ok(r) with r the result of an endpoint
\* that succeeded, or an Err value after every endpoint failed: it did not
\* panic, whatever the length of the list.
C17_FetchFirstOkOrError ==
    (rpc.kind = "fetch" /\ rpc.res.kind # "none") =>
        \/ /\ rpc.res.kind = "ok"
           /\ \E i \in DOMAIN eps :
                 eps[i].st = "taken" /\ eps[i].val = rpc.res.val
        \/ /\ Reports(rpc.res, "Fetch")
           /\ \A i \in DOMAIN eps : eps[i].st = "gone"

\* ------------------------------------------------------------------ C18

\* C18: once multicast has sent its requests it returns, whether or not an
\* endpoint ever answers.
C18_MulticastReturnsOnceSent ==
    (rpc.kind = "multicast" /\ \A i \in DOMAIN eps : eps[i].st # "created")
        ~> (rpc.kind = "multicast" /\ rpc.res.kind = "ok")

\* ================================================================== Id
\* crates/json-rpc/src/client/id.rs: the JSON-RPC id, serialized untagged and
\* deserialized through RawId.  A text is a sequence of characters.

\* The largest absolute value of the numbers tried.
MaxIdNumber == 12

\* The longest string tried.
MaxIdLen == 2

Quote == "\""

Backslash == "\\"

Digits == <<"0", "1", "2", "3", "4", "5", "6", "7", "8", "9">>

NullText == <<"n", "u", "l", "l">>

\* The strings tried: every string of at most MaxIdLen characters over a
\* digit, a letter, the quote and the backslash, and the texts that are the
\* JSON of another Id.
IdStrings ==
    UNION {[1 .. n -> {"0", "n", Quote, Backslash}] : n \in 0 .. MaxIdLen}
        \cup {NullText, <<"-", "1">>, <<"1", "2">>}

\* Id: Number(i64), String(String), Null.
Number(n) == [variant |-> "Number", num |-> n, str |-> << >>]

String(str) == [variant |-> "String", num |-> 0, str |-> str]

Null == [variant |-> "Null", num |-> 0, str |-> << >>]

Ids ==
    {Number(n) : n \in (0 - MaxIdNumber) .. MaxIdNumber}
        \cup {String(str) : str \in IdStrings}
        \cup {Null}

\* The decimal text of an integer, as serde_json writes it.
RECURSIVE itoa(_)
itoa(n) ==
    IF n < 0 THEN <<"-">> \o itoa(0 - n)
    ELSE IF n < 10 THEN <<Digits[n + 1]>>
    ELSE itoa(n \div 10) \o <<Digits[(n % 10) + 1]>>

IsDigit(c) == \E d \in DOMAIN Digits : Digits[d] = c

DigitVal(c) == (CHOOSE d \in DOMAIN Digits : Digits[d] = c) - 1

\* The integer a text of digits with an optional sign stands for.
RECURSIVE atoi(_)
atoi(text) ==
    IF text = << >> THEN 0
    ELSE IF Head(text) = "-" THEN 0 - atoi(Tail(text))
    ELSE atoi(SubSeq(text, 1, Len(text) - 1)) * 10
             + DigitVal(text[Len(text)])

IsNumberText(text) ==
    LET digits == IF text # << >> /\ Head(text) = "-" THEN Tail(text)
                  ELSE text
    IN digits # << >> /\ \A i \in DOMAIN digits : IsDigit(digits[i])

\* serde_json writes a string between quotes, with a backslash before every
\* quote and backslash of the string.
RECURSIVE escape(_)
escape(str) ==
    IF str = << >> THEN << >>
    ELSE (IF Head(str) \in {Quote, Backslash} THEN <<Backslash, Head(str)>>
          ELSE <<Head(str)>>) \o escape(Tail(str))

RECURSIVE unescape(_)
unescape(text) ==
    IF text = << >> THEN << >>
    ELSE IF Head(text) = Backslash /\ Len(text) >= 2
    THEN <<text[2]>> \o unescape(SubSeq(text, 3, Len(text)))
    ELSE <<Head(text)>> \o unescape(Tail(text))

\* A to_string that writes a string without its quotes.
to_string_unquoted(value) ==
    IF value.variant = "Number" THEN Ok(itoa(value.num))
    ELSE IF value.variant = "String" THEN Ok(value.str)
    ELSE Ok(NullText)

\* serde_json::to_string(&Id), Serialize derived untagged: a Number is the
\* number, a String the string, Null (a unit variant) is null.
to_string(value) ==
    IF value.variant = "Number" THEN Ok(itoa(value.num))
    ELSE IF value.variant = "String"
    THEN Ok(<<Quote>> \o escape(value.str) \o <<Quote>>)
    ELSE Ok(NullText)

\* RawId: Number(Option<i64>), String(Option<String>).
RawNumber(some, n) ==
    [variant |-> "Number", some |-> some, num |-> n, str |-> << >>]

RawString(some, str) ==
    [variant |-> "String", some |-> some, num |-> 0, str |-> str]

\* Deserialize of RawId, derived untagged: the variants are tried in their
\* order.  Number(Option<i64>) takes null (None) and an integer,
\* String(Option<String>) takes a string; any other text matches no variant.
raw_from_str(text) ==
    IF text = NullText THEN Ok(RawNumber(FALSE, 0))
    ELSE IF IsNumberText(text) THEN Ok(RawNumber(TRUE, atoi(text)))
    ELSE IF Len(text) >= 2 /\ Head(text) = Quote /\ text[Len(text)] = Quote
    THEN Ok(RawString(TRUE, unescape(SubSeq(text, 2, Len(text) - 1))))
    ELSE Err("data did not match any variant")

\* impl From<RawId> for Id.
from(raw) ==
    IF raw.variant = "Number"
    THEN (IF raw.some THEN Number(raw.num) ELSE Null)
    ELSE (IF raw.some THEN String(raw.str) ELSE Null)

\* serde_json::from_str::<Id>, with #[serde(from = "RawId")].
from_str(text) ==
    LET raw == raw_from_str(text)
    IN IF raw.kind = "ok" THEN Ok(from(raw.val)) ELSE raw

\* let id_number = Id::from(..): the Id of the round trip.
IdInit ==
    /\ id \in Ids
    /\ json = NoCall
    /\ back = NoCall
    /\ OnlyId

\* let id_ser = serde_json::to_string(&id).unwrap().
Serialize ==
    /\ json.kind = "none"
    /\ json' = to_string(id)
    /\ UNCHANGED <<id, back>>
    /\ UNCHANGED notId

\* let id_de: Id = serde_json::from_str(&id_ser).unwrap().
Deserialize ==
    /\ json.kind = "ok"
    /\ back.kind = "none"
    /\ back' = from_str(json.val)
    /\ UNCHANGED <<id, json>>
    /\ UNCHANGED notId

IdNext ==
    \/ Serialize
    \/ Deserialize

SpecId == IdInit /\ [][IdNext]_vars

\* ------------------------------------------------------------------ C19

\* C19: the Id deserialized from the JSON of an Id is that Id, in the same
\* variant.
C19_IdRoundTrip ==
    back.kind # "none" =>
        /\ back.kind = "ok"
        /\ back.val.variant = id.variant
        /\ back.val.num = id.num
        /\ back.val.str = id.str

\* A string whose characters are the JSON of a number, a string with a quote
\* and a backslash, a negative number of two digits and Null went round.
C19_Witness ==
    /\ back.kind = "ok"
    /\ id \in {String(<<"1", "2">>), String(<<Quote, Backslash>>),
               Number(0 - 10), Null, String(NullText)}

\* ------------------------------------------------------------------ C21

\* The unscaled verification equation e(C, h[N-pos-1]) = e(W, G2) * t^value,
\* with GT written additively (t^value is value * t).
UnscaledEquation(C, W, value, pos) ==
    pairing(C, vp.h[N - pos - 1 + 1])
        = (pairing(W, G2Generator) + value * vp.t) % P

\* C21: for every nonzero value and every pos < N, verify (which tests
\* e(C^(1/value), h[N-pos-1]) * e(W^(-1/value), G2) = t) takes the same
\* decision as the unscaled check e(C, h[N-pos-1]) = e(W, G2) * t^value.
C21_SameDecisionAsUnscaled ==
    (/\ Verified
     /\ ver.input # 0
     /\ ver.pos < N)
    => Returns(ver.res,
               UnscaledEquation(com.res.val, wit.res.val, ver.input, ver.pos))

\* Both decisions are taken for a value other than 1 (where scaling matters):
\* this is a state where the answer is true.
C21_Witness ==
    /\ Verified
    /\ ver.input > 1
    /\ ver.pos < N
    /\ wit.res.val # 0
    /\ Returns(ver.res, TRUE)
    /\ UnscaledEquation(com.res.val, wit.res.val, ver.input, ver.pos)

\* ------------------------------------------------------------------ C22

\* The witness was opened on the committed vector at a position past its end
\* and below the capacity.
PaddingPosition ==
    /\ com.inputs = wit.inputs
    /\ Len(wit.inputs) <= wit.pos
    /\ wit.pos < N

\* C22: for len(inputs) <= pos < N, open does not reject and returns a
\* witness, and verify of the commitment of the same vector at pos with that
\* witness returns false for every nonzero value.
C22_PaddingPositionOpensAndRejects ==
    /\ (Opened /\ PaddingPosition) => wit.res.kind = "ok"
    /\ (/\ Verified
        /\ PaddingPosition
        /\ ver.pos = wit.pos
        /\ ver.input # 0)
       => Returns(ver.res, FALSE)

\* A nonempty vector shorter than N, opened and verified one past its end.
C22_Witness ==
    /\ Verified
    /\ PaddingPosition
    /\ Len(wit.inputs) > 0
    /\ \E i \in 1 .. Len(wit.inputs) : wit.inputs[i] # 0
    /\ ver.pos = wit.pos
    /\ ver.input # 0
    /\ wit.res.kind = "ok"
    /\ Returns(ver.res, FALSE)

\* ------------------------------------------------------------------ C23

\* The witness was opened at a position inside its vector.
OpenedInside ==
    /\ Opened
    /\ wit.res.kind = "ok"
    /\ wit.pos < Len(wit.inputs)

\* The vectors that agree with inputs everywhere but (possibly) at pos.
AgreeOffPos(inputs, pos) ==
    {v \in Vectors :
        /\ Len(v) = Len(inputs)
        /\ \A i \in 1 .. Len(inputs) : i # pos + 1 => v[i] = inputs[i]}

\* C23: for an honest commitment and witness at pos < len(inputs) every term
\* i # pos of the pairing equation cancels and the term of pos alone remains,
\* e(C, h[N-pos-1]) = e(W, G2) * t^inputs[pos] (g[N], met by the term i = pos
\* of open's window, contributes nothing), and open at pos returns the same
\* witness for any two vectors that differ only at position pos.
C23_OnlyTermOfPosRemains ==
    OpenedInside =>
        /\ UnscaledEquation(commit(pp, wit.inputs).val, wit.res.val,
                            At(wit.inputs, wit.pos), wit.pos)
        /\ \A v \in AgreeOffPos(wit.inputs, wit.pos) :
              Returns(open(pp, v, wit.pos), wit.res.val)

\* The committed vector and the opened one differ at pos and nowhere else,
\* the opened one having other nonzero entries and a nonzero entry at pos.
C23_Witness ==
    /\ OpenedInside
    /\ Committed
    /\ At(wit.inputs, wit.pos) # 0
    /\ com.inputs # wit.inputs
    /\ com.inputs \in AgreeOffPos(wit.inputs, wit.pos)
    /\ \E i \in 1 .. Len(wit.inputs) : i # wit.pos + 1 /\ wit.inputs[i] # 0
    /\ wit.res.val # 0

\* ------------------------------------------------------------------ C24

\* C24: for every vector shorter than N, appending a zero entry changes
\* neither the commitment nor the witness at any position, and the commitment
\* of the empty vector is the identity of G1.
C24_TrailingZeroInvisible ==
    /\ (Committed /\ Len(com.inputs) < N)
       => SameResult(commit(pp, Append(com.inputs, 0)), com.res)
    /\ (Opened /\ Len(wit.inputs) < N)
       => SameResult(open(pp, Append(wit.inputs, 0), wit.pos), wit.res)
    /\ (Committed /\ com.inputs = << >>) => Returns(com.res, 0)

\* A vector shorter than N with a nonzero entry, committed to and opened
\* inside it with a witness other than the identity.
C24_Witness ==
    /\ Committed
    /\ Opened
    /\ com.inputs = wit.inputs
    /\ Len(com.inputs) < N
    /\ com.res.kind = "ok"
    /\ com.res.val # 0
    /\ wit.pos < Len(wit.inputs)
    /\ wit.res.kind = "ok"
    /\ wit.res.val # 0

\* ------------------------------------------------------------------ C25

\* C25: apply is an atomic read-modify-write of the key.  The stored value is
\* the value of the last other write plus one for each apply that returned
\* Ok since (no increment is lost, whatever the interleaving), a thread
\* inside apply holds the key's lock with the value stored under the key, and
\* a key that is missing stays missing whatever applies were called on it.
C25_ApplyLosesNoUpdate ==
    /\ applied.base # None => db = applied.base + applied.ok
    /\ applied.base = None => (db = None /\ applied.ok = 0)
    /\ \A t \in KvThreads :
          kt[t].pc = "apply" => (klock = t /\ kt[t].value = db)

\* One apply returned Ok on an existing key and the other thread, inside
\* its own apply, holds the lock with the incremented value.
C25_Witness ==
    /\ applied.base # None
    /\ applied.ok = 1
    /\ db = applied.base + 1
    /\ \E t \in KvThreads :
          /\ kt[t].pc = "apply"
          /\ kt[t].value = applied.base + 1
          /\ \E u \in KvThreads \ {t} : Returns(kt[u].res, 0)

====
